---- MODULE Spec2Model ----
(***************************************************************************)
(* Formageddon: declarative form validation layered over the browser's     *)
(* constraint validation API.  The model follows the newest snapshot of    *)
(* the script (src/unnamed/part_000, lines 1-261): the resolver            *)
(* (isValidAccept, isValidConfirm, getError, validateInput), the           *)
(* synchronizer (handleInvalidInput, handleValidInput, clearValidation),   *)
(* submit gating (handleFormSubmitControl) and the wiring done by          *)
(* initValidators on DOMContentLoaded.                                     *)
(*                                                                         *)
(* Text that the script inspects character by character (control values,   *)
(* accept filters, file names, MIME types) is a sequence of one-character  *)
(* strings; text that is only copied or compared whole (messages, ids,     *)
(* selectors, attribute names) is a TLA+ string.                           *)
(***************************************************************************)
EXTENDS Integers, Sequences, FiniteSets, TLC

VARIABLES
    el,         \* id -> element: the form controls of the document
    target,     \* id -> [classes, text]: the other elements that carry an id
    forms,      \* the WeakSet of initialised forms
    listeners,  \* the listeners attached so far, in attachment order
    event,      \* [type, target]: the event the host dispatched last
    run,        \* the handler calls made by the last step, in call order
    log,        \* the console.error lines written by the last step
    pc          \* "loading" until DOMContentLoaded has been handled

vars == <<el, target, forms, listeners, event, run, log, pc>>

----------------------------------------------------------------------------
(* Bounds of the model.                                                    *)

\* longest value a user types into a control, in characters
MaxLen == 1
\* most validity flags the host raises on one control at once
MaxFlags == 2
\* most files a user selects in one file control
MaxFiles == 2

----------------------------------------------------------------------------
(* JavaScript string primitives on sequences of characters.                *)

Whitespace == {" "}

UpperCase == <<"A","B","C","D","E","F","G","H","I","J","K","L","M",
               "N","O","P","Q","R","S","T","U","V","W","X","Y","Z">>
LowerCase == <<"a","b","c","d","e","f","g","h","i","j","k","l","m",
               "n","o","p","q","r","s","t","u","v","w","x","y","z">>

LowerChar(c) ==
    IF \E k \in 1..Len(UpperCase) : UpperCase[k] = c
    THEN LowerCase[CHOOSE k \in 1..Len(UpperCase) : UpperCase[k] = c]
    ELSE c

toLowerCase(s) == [k \in 1..Len(s) |-> LowerChar(s[k])]

RECURSIVE trimStart(_)
trimStart(s) ==
    IF s # <<>> /\ Head(s) \in Whitespace THEN trimStart(Tail(s)) ELSE s

RECURSIVE trimEnd(_)
trimEnd(s) ==
    IF s # <<>> /\ s[Len(s)] \in Whitespace
    THEN trimEnd(SubSeq(s, 1, Len(s) - 1))
    ELSE s

trim(s) == trimEnd(trimStart(s))

startsWith(s, p) == Len(p) <= Len(s) /\ SubSeq(s, 1, Len(p)) = p

endsWith(s, p) == Len(p) <= Len(s) /\ SubSeq(s, Len(s) - Len(p) + 1, Len(s)) = p

\* s.slice(0, -1)
sliceDropLast(s) == SubSeq(s, 1, Len(s) - 1)

\* s.split(","): the pieces between the commas; "" splits into one empty piece
RECURSIVE split(_)
split(s) ==
    IF \E k \in 1..Len(s) : s[k] = ","
    THEN LET k == CHOOSE j \in 1..Len(s) :
                      s[j] = "," /\ \A h \in 1..(j - 1) : s[h] # ","
         IN  <<SubSeq(s, 1, k - 1)>> \o split(SubSeq(s, k + 1, Len(s)))
    ELSE <<s>>

\* JavaScript truthiness of a string
Truthy(s) == s # ""

\* JavaScript truthiness of a string held as a sequence of characters
TruthyChars(s) == s # <<>>

----------------------------------------------------------------------------
(* The script's tables.                                                    *)

\* HTML form elements to validate
tags == {"INPUT", "TEXTAREA", "SELECT"}

\* attributes to be validated
attrs == {"accept", "min", "max", "step", "minlength", "maxlength", "pattern", "required"}

\* the table with the tooLong and tooShort entries in each other's place
errorsSwapped ==
    << [key |-> "valueMissing",    attr |-> "data-required-err",  default |-> "This field is required."],
       [key |-> "typeMismatch",    attr |-> "data-type-err",      default |-> "The value is not the correct type."],
       [key |-> "patternMismatch", attr |-> "data-pattern-err",   default |-> "The value does not match the required pattern."],
       [key |-> "tooShort",        attr |-> "data-minlength-err", default |-> "The value is too short."],
       [key |-> "tooLong",         attr |-> "data-maxlength-err", default |-> "The value is too long."],
       [key |-> "rangeOverflow",   attr |-> "data-max-err",       default |-> "The value is too large."],
       [key |-> "rangeUnderflow",  attr |-> "data-min-err",       default |-> "The value is too small."],
       [key |-> "stepMismatch",    attr |-> "data-step-err",      default |-> "The value does not match the step interval."],
       [key |-> "badInput",        attr |-> "data-type-err",      default |-> "The input value is invalid."] >>

\* validity flag -> custom message attribute and default message, in the
\* order Object.entries walks the table
errors ==
    << [key |-> "valueMissing",    attr |-> "data-required-err",  default |-> "This field is required."],
       [key |-> "typeMismatch",    attr |-> "data-type-err",      default |-> "The value is not the correct type."],
       [key |-> "patternMismatch", attr |-> "data-pattern-err",   default |-> "The value does not match the required pattern."],
       [key |-> "tooLong",         attr |-> "data-maxlength-err", default |-> "The value is too long."],
       [key |-> "tooShort",        attr |-> "data-minlength-err", default |-> "The value is too short."],
       [key |-> "rangeOverflow",   attr |-> "data-max-err",       default |-> "The value is too large."],
       [key |-> "rangeUnderflow",  attr |-> "data-min-err",       default |-> "The value is too small."],
       [key |-> "stepMismatch",    attr |-> "data-step-err",      default |-> "The value does not match the step interval."],
       [key |-> "badInput",        attr |-> "data-type-err",      default |-> "The input value is invalid."] >>

----------------------------------------------------------------------------
(* The DOM as the script reads and writes it.                              *)
(*                                                                         *)
(* An element of el is a record                                            *)
(*   tag, type  tagName and the type property                              *)
(*   form       the id of the form that owns it, "" when it has none       *)
(*   index      its position in tree order                                 *)
(*   attrs      attribute name -> value; absent attributes are not in the  *)
(*              domain ("accept" holds characters, the others strings)     *)
(*   value      the value property, as characters                          *)
(*   files      the FileList of a file control: records [name, type]       *)
(*   validity   the ValidityState flags that are true                      *)
(*   disabled   the disabled property                                      *)
(* A document d threaded through the handlers is [el, target, log, run].   *)

hasAttribute(e, a) == a \in DOMAIN e.attrs

\* e.getAttribute(a) || dflt, for string-valued attributes
getAttributeOr(e, a, dflt) ==
    IF hasAttribute(e, a) /\ Truthy(e.attrs[a]) THEN e.attrs[a] ELSE dflt

setAttribute(e, a, v) ==
    [e EXCEPT !.attrs = [x \in (DOMAIN e.attrs) \cup {a} |-> IF x = a THEN v ELSE e.attrs[x]]]

removeAttribute(e, a) ==
    [e EXCEPT !.attrs = [x \in (DOMAIN e.attrs) \ {a} |-> e.attrs[x]]]

\* document.querySelector(sel) for the id selectors "#id": the id of the
\* element found, or "" when there is none
querySelector(d, sel) ==
    IF \E i \in (DOMAIN d.el) \cup (DOMAIN d.target) : sel = "#" \o i
    THEN CHOOSE i \in (DOMAIN d.el) \cup (DOMAIN d.target) : sel = "#" \o i
    ELSE ""

\* input.validity.valid
validityValid(e) == e.validity = {}

\* form.elements, in tree order
RECURSIVE sortByIndex(_, _)
sortByIndex(d, ids) ==
    IF ids = {} THEN <<>>
    ELSE LET first == CHOOSE i \in ids : \A j \in ids : d.el[i].index <= d.el[j].index
         IN  <<first>> \o sortByIndex(d, ids \ {first})

formElements(d, f) == sortByIndex(d, {i \in DOMAIN d.el : d.el[i].form = f})

\* form.checkValidity(): every control of the form that is not barred from
\* constraint validation (not disabled) satisfies its constraints
checkValidity(d, f) ==
    \A i \in DOMAIN d.el :
        (d.el[i].form = f /\ ~d.el[i].disabled) => validityValid(d.el[i])

\* form.querySelectorAll("[aria-invalid=true]")
ariaInvalidIn(d, f) ==
    {i \in DOMAIN d.el :
        d.el[i].form = f /\ hasAttribute(d.el[i], "aria-invalid")
                         /\ d.el[i].attrs["aria-invalid"] = "true"}

consoleError(d, line) == [d EXCEPT !.log = Append(@, line)]

----------------------------------------------------------------------------
(* Resolver.                                                               *)

\* matchesType comparing the MIME prefix with the whole token, "*" included
matchesTypeNoSlice(file, acceptedTypes) ==
    LET fileType == toLowerCase(file.type)
        fileName == toLowerCase(file.name)
    IN  \E k \in 1..Len(acceptedTypes) :
            LET type == acceptedTypes[k]
            IN  IF startsWith(type, <<".">>)
                THEN endsWith(fileName, type)
                ELSE IF endsWith(type, <<"/", "*">>)
                     THEN startsWith(fileType, type)
                     ELSE fileType = type

\* acceptedTypes.some(...) for one file
matchesType(file, acceptedTypes) ==
    LET fileType == toLowerCase(file.type)
        fileName == toLowerCase(file.name)
    IN  \E k \in 1..Len(acceptedTypes) :
            LET type == acceptedTypes[k]
            IN  IF startsWith(type, <<".">>)
                THEN endsWith(fileName, type)
                ELSE IF endsWith(type, <<"/", "*">>)
                     THEN startsWith(fileType, sliceDropLast(type))
                     ELSE fileType = type

\* the for-of loop over input.files, from file k on
RECURSIVE allFilesMatch(_, _, _)
allFilesMatch(files, acceptedTypes, k) ==
    IF k > Len(files) THEN TRUE
    ELSE IF ~matchesType(files[k], acceptedTypes) THEN FALSE
         ELSE allFilesMatch(files, acceptedTypes, k + 1)

isValidAccept(e) ==
    IF ~hasAttribute(e, "accept") \/ ~TruthyChars(e.attrs["accept"]) THEN TRUE
    ELSE LET pieces == split(e.attrs["accept"])
             acceptedTypes == [k \in 1..Len(pieces) |-> toLowerCase(trim(pieces[k]))]
         IN  IF Len(e.files) = 0 THEN TRUE
             ELSE allFilesMatch(e.files, acceptedTypes, 1)

\* isValidConfirm: [ok |-> the value returned, log |-> the lines it writes]
\* isValidConfirm returning true when the origin is not found
isValidConfirmLenient(d, i) ==
    LET input == d.el[i]
    IN  IF ~Truthy(getAttributeOr(input, "data-confirm", "")) THEN [ok |-> TRUE, log |-> <<>>]
        ELSE LET origin == input.attrs["data-confirm"]
                 originEl == querySelector(d, origin)
             IN  IF originEl = ""
                 THEN [ok |-> TRUE, log |-> <<"element not found for data-confirm=" \o origin>>]
                 ELSE [ok |-> originEl \in DOMAIN d.el /\ input.value = d.el[originEl].value,
                       log |-> <<>>]

isValidConfirm(d, i) ==
    LET input == d.el[i]
    IN  IF ~hasAttribute(input, "data-confirm") \/ ~Truthy(input.attrs["data-confirm"])
        THEN [ok |-> TRUE, log |-> <<>>]
        ELSE LET origin == input.attrs["data-confirm"]
                 originEl == querySelector(d, origin)
             IN  IF originEl = ""
                 THEN [ok |-> FALSE, log |-> <<"element not found for data-confirm=" \o origin>>]
                 ELSE [ok |-> originEl \in DOMAIN d.el /\ input.value = d.el[originEl].value,
                       log |-> <<>>]

\* the loop over Object.entries(errors), from entry k on
RECURSIVE firstError(_, _)
firstError(input, k) ==
    IF k > Len(errors) THEN ""
    ELSE IF errors[k].key \in input.validity
         THEN getAttributeOr(input, errors[k].attr, errors[k].default)
         ELSE firstError(input, k + 1)

\* getError: [msg |-> the message returned, log |-> the lines it writes]
getError(d, i) ==
    LET input == d.el[i]
    IN  IF /\ input.type = "file"
           /\ hasAttribute(input, "accept")
           /\ TruthyChars(trim(input.value))
           /\ ~isValidAccept(input)
        THEN [msg |-> getAttributeOr(input, "data-accept-err", "Invalid file type."),
              log |-> <<>>]
        ELSE IF hasAttribute(input, "data-confirm")
             THEN IF TruthyChars(trim(input.value))
                  THEN LET c == isValidConfirm(d, i)
                       IN  [msg |-> IF ~c.ok
                                    THEN getAttributeOr(input, "data-confirm-err", "Values do not match.")
                                    ELSE "",
                            log |-> c.log]
                  ELSE [msg |-> "", log |-> <<>>]
             ELSE [msg |-> firstError(input, 1), log |-> <<>>]

----------------------------------------------------------------------------
(* Synchronizer.                                                           *)

\* document.getElementById(id) finds a message element or a control; the
\* classes and text of a control are not part of the model
elementExists(d, id) == id \in (DOMAIN d.target) \cup (DOMAIN d.el)

\* handleInvalidInput without classList.remove("valid")
handleInvalidInputKeepsValid(d, i) ==
    LET d1 == [d EXCEPT !.el[i] = setAttribute(@, "aria-invalid", "true")]
        input == d1.el[i]
        t == getAttributeOr(input, "aria-describedby", "")
    IN  IF ~Truthy(t) THEN d1
        ELSE IF ~elementExists(d1, t)
             THEN consoleError(d1, "element not found for aria-describedby=" \o t)
             ELSE LET err == getError(d1, i)
                      d2 == [d1 EXCEPT !.log = @ \o err.log]
                  IN  IF t \in DOMAIN d2.target
                      THEN [d2 EXCEPT !.target[t] =
                               [classes |-> @.classes \cup {"invalid"}, text |-> err.msg]]
                      ELSE d2

\* handleInvalidInput looking for the message element before it marks the
\* control
handleInvalidInputTargetFirst(d, i) ==
    LET t == getAttributeOr(d.el[i], "aria-describedby", "")
    IN  IF Truthy(t) /\ ~elementExists(d, t)
        THEN consoleError(d, "element not found for aria-describedby=" \o t)
        ELSE LET d1 == [d EXCEPT !.el[i] = setAttribute(@, "aria-invalid", "true")]
                 err == getError(d1, i)
                 d2 == [d1 EXCEPT !.log = @ \o err.log]
             IN  IF t \in DOMAIN d2.target
                 THEN [d2 EXCEPT !.target[t] =
                          [classes |-> (@.classes \cup {"invalid"}) \ {"valid"},
                           text    |-> err.msg]]
                 ELSE d2

handleInvalidInput(d, i) ==
    LET d1 == [d EXCEPT !.el[i] = setAttribute(@, "aria-invalid", "true")]
        input == d1.el[i]
        t == getAttributeOr(input, "aria-describedby", "")
    IN  IF ~Truthy(t) THEN d1
        ELSE IF ~elementExists(d1, t)
             THEN consoleError(d1, "element not found for aria-describedby=" \o t)
             ELSE LET err == getError(d1, i)
                      d2 == [d1 EXCEPT !.log = @ \o err.log]
                  IN  IF t \in DOMAIN d2.target
                      THEN [d2 EXCEPT !.target[t] =
                               [classes |-> (@.classes \cup {"invalid"}) \ {"valid"},
                                text    |-> err.msg]]
                      ELSE d2

\* handleValidInput without classList.remove("invalid")
handleValidInputKeepsInvalid(d, i) ==
    LET d1 == [d EXCEPT !.el[i] = setAttribute(@, "aria-invalid", "false")]
        input == d1.el[i]
        t == getAttributeOr(input, "aria-describedby", "")
    IN  IF ~Truthy(t) \/ t \notin DOMAIN d1.target THEN d1
        ELSE [d1 EXCEPT !.target[t] =
                 [classes |-> @.classes \cup {"valid"},
                  text    |-> getAttributeOr(input, "data-success", "")]]

\* handleValidInput without setAttribute("aria-invalid", "false")
handleValidInputNoMark(d, i) ==
    LET input == d.el[i]
        t == getAttributeOr(input, "aria-describedby", "")
    IN  IF ~Truthy(t) THEN d
        ELSE IF ~elementExists(d, t)
             THEN consoleError(d, "element not found for aria-describedby=" \o t)
             ELSE IF t \in DOMAIN d.target
                  THEN [d EXCEPT !.target[t] =
                           [classes |-> (@.classes \cup {"valid"}) \ {"invalid"},
                            text    |-> getAttributeOr(input, "data-success", "")]]
                  ELSE d

handleValidInput(d, i) ==
    LET d1 == [d EXCEPT !.el[i] = setAttribute(@, "aria-invalid", "false")]
        input == d1.el[i]
        t == getAttributeOr(input, "aria-describedby", "")
    IN  IF ~Truthy(t) THEN d1
        ELSE IF ~elementExists(d1, t)
             THEN consoleError(d1, "element not found for aria-describedby=" \o t)
             ELSE IF t \in DOMAIN d1.target
                  THEN [d1 EXCEPT !.target[t] =
                           [classes |-> (@.classes \cup {"valid"}) \ {"invalid"},
                            text    |-> getAttributeOr(input, "data-success", "")]]
                  ELSE d1

\* clearValidation removing only the "invalid" class
clearValidationKeepsValid(d, i) ==
    LET d1 == [d EXCEPT !.el[i] = removeAttribute(@, "aria-invalid")]
        input == d1.el[i]
        t == getAttributeOr(input, "aria-describedby", "")
    IN  IF ~Truthy(t) \/ t \notin DOMAIN d1.target THEN d1
        ELSE [d1 EXCEPT !.target[t] = [classes |-> @.classes \ {"invalid"}, text |-> ""]]

clearValidation(d, i) ==
    LET d1 == [d EXCEPT !.el[i] = removeAttribute(@, "aria-invalid")]
        input == d1.el[i]
        t == getAttributeOr(input, "aria-describedby", "")
    IN  IF ~Truthy(t) THEN d1
        ELSE IF ~elementExists(d1, t)
             THEN consoleError(d1, "element not found for aria-describedby=" \o t)
             ELSE IF t \in DOMAIN d1.target
                  THEN [d1 EXCEPT !.target[t] =
                           [classes |-> @.classes \ {"invalid", "valid"},
                            text    |-> ""]]
                  ELSE d1

\* the branch validateInput takes
validateInputState(d, i) ==
    IF ~isValidConfirm(d, i).ok \/ ~validityValid(d.el[i]) THEN "Invalid"
    ELSE IF TruthyChars(trim(d.el[i].value)) THEN "Valid"
         ELSE "Neutral"

\* the synchronizer call of a branch
applyDecision(d, i, state) ==
    CASE state = "Invalid" -> handleInvalidInput(d, i)
      [] state = "Valid"   -> handleValidInput(d, i)
      [] OTHER             -> clearValidation(d, i)

validateInput(d, i) ==
    LET state == validateInputState(d, i)
        d1 == [d EXCEPT !.log = @ \o isValidConfirm(d, i).log,
                        !.run = Append(@, [fn |-> "validateInput", arg |-> i, state |-> state])]
    IN  applyDecision(d1, i, state)

----------------------------------------------------------------------------
(* Submit gating.                                                          *)

handleFormSubmitControl(d, form, submit) ==
    LET off == ~(checkValidity(d, form) /\ Cardinality(ariaInvalidIn(d, form)) = 0)
    IN  [d EXCEPT !.el[submit].disabled = off,
                  !.run = Append(@, [fn |-> "handleFormSubmitControl", arg |-> submit,
                                     state |-> IF off THEN "disabled" ELSE "enabled"])]

----------------------------------------------------------------------------
(* Wiring.  A wiring pass threads w = [d, listeners]; a listener is        *)
(* [on, type, fn, arg]: fn(arg) runs when an event of that type reaches    *)
(* element on.                                                             *)

addEventListener(w, on, type, fn, arg) ==
    [w EXCEPT !.listeners = Append(@, [on |-> on, type |-> type, fn |-> fn, arg |-> arg])]

\* applyValidator that also resolves the origin on the dependent's input
applyValidatorBothWays(w, i) ==
    LET w1 == addEventListener(w, i, "input", "validateInput", i)
        input == w.d.el[i]
    IN  IF ~hasAttribute(input, "data-confirm") THEN w1
        ELSE LET origin == input.attrs["data-confirm"]
             IN  IF ~Truthy(origin)
                 THEN [w1 EXCEPT !.d = consoleError(@, "data-confirm attribute set without origin reference")]
                 ELSE LET originEl == querySelector(w.d, origin)
                      IN  IF originEl = ""
                          THEN [w1 EXCEPT !.d = consoleError(@, "element not found for data-confirm=" \o origin)]
                          ELSE addEventListener(
                                   addEventListener(w1, originEl, "input", "validateInput", i),
                                   i, "input", "validateInput", originEl)

applyValidator(w, i) ==
    LET w1 == addEventListener(w, i, "input", "validateInput", i)
        input == w.d.el[i]
    IN  IF ~hasAttribute(input, "data-confirm") THEN w1
        ELSE LET origin == input.attrs["data-confirm"]
             IN  IF ~Truthy(origin)
                 THEN [w1 EXCEPT !.d = consoleError(@, "data-confirm attribute set without origin reference")]
                 ELSE LET originEl == querySelector(w.d, origin)
                      IN  IF originEl = ""
                          THEN [w1 EXCEPT !.d = consoleError(@, "element not found for data-confirm=" \o origin)]
                          ELSE addEventListener(w1, originEl, "input", "validateInput", i)

\* applySubmitValidator without the test of tagName and type
applySubmitValidatorAny(w, form, submit) ==
    addEventListener([w EXCEPT !.d = handleFormSubmitControl(@, form, submit)],
                     form, "input", "handleFormSubmitControl", submit)

applySubmitValidator(w, form, submit) ==
    IF w.d.el[submit].tag \notin {"INPUT", "BUTTON"} \/ w.d.el[submit].type # "submit"
    THEN [w EXCEPT !.d = consoleError(@, "submission button expected to be of type input or button with type=submit")]
    ELSE addEventListener([w EXCEPT !.d = handleFormSubmitControl(@, form, submit)],
                          form, "input", "handleFormSubmitControl", submit)

\* the loop body without the test for data-ignore
wireElementOptedOut(w, form, i) ==
    LET e == w.d.el[i]
        w1 == IF e.tag \in tags /\ \E a \in DOMAIN e.attrs : a \in attrs
              THEN applyValidator(w, i)
              ELSE w
    IN  IF hasAttribute(e, "data-submit") THEN applySubmitValidator(w1, form, i) ELSE w1

\* the loop body without the search for a validation attribute
wireElementAnyControl(w, form, i) ==
    LET e == w.d.el[i]
        w1 == IF e.tag \in tags /\ ~hasAttribute(e, "data-ignore")
              THEN applyValidator(w, i)
              ELSE w
    IN  IF hasAttribute(e, "data-submit") THEN applySubmitValidator(w1, form, i) ELSE w1

\* the body of the loop over form.elements for one element
wireElement(w, form, i) ==
    LET e == w.d.el[i]
        w1 == IF /\ e.tag \in tags
                 /\ ~hasAttribute(e, "data-ignore")
                 /\ \E a \in DOMAIN e.attrs : a \in attrs
              THEN applyValidator(w, i)
              ELSE w
    IN  IF hasAttribute(e, "data-submit") THEN applySubmitValidator(w1, form, i) ELSE w1

RECURSIVE wireElements(_, _, _)
wireElements(w, form, ids) ==
    IF ids = <<>> THEN w
    ELSE wireElements(wireElement(w, form, Head(ids)), form, Tail(ids))

\* the forms a document can hold, in tree order; each is marked
\* data-validate
Forms == <<"f", "g">>

\* document.querySelectorAll("form[data-validate]"): the forms of d, each
\* known by the controls it holds
dataValidateForms(d) ==
    LET Present(f) == \E i \in DOMAIN d.el : d.el[i].form = f
    IN  SelectSeq(Forms, Present)

\* the forEach callback without the forms.has(form) guard
initFormAgain(w, fs, form) ==
    [w |-> wireElements(w, form, formElements(w.d, form)), forms |-> fs \cup {form}]

\* the forEach callback of initValidators for one form; fs is the WeakSet
initForm(w, fs, form) ==
    IF form \in fs THEN [w |-> w, forms |-> fs]
    ELSE [w |-> wireElements(w, form, formElements(w.d, form)), forms |-> fs \cup {form}]

RECURSIVE initForms(_, _, _)
initForms(w, fs, todo) ==
    IF todo = <<>> THEN [w |-> w, forms |-> fs]
    ELSE LET r == initForm(w, fs, Head(todo))
         IN  initForms(r.w, r.forms, Tail(todo))

initValidators(w, fs) == initForms(w, fs, dataValidateForms(w.d))

----------------------------------------------------------------------------
(* Event dispatch: an event fired at x, a control or a form, runs the      *)
(* listeners of its type attached to x and then, when x is a control and   *)
(* the event bubbles, those attached to the form that contains x.          *)

callListener(d, l) ==
    IF l.fn = "validateInput" THEN validateInput(d, l.arg)
    ELSE handleFormSubmitControl(d, l.on, l.arg)

RECURSIVE callListeners(_, _)
callListeners(d, ls) ==
    IF ls = <<>> THEN d ELSE callListeners(callListener(d, Head(ls)), Tail(ls))

\* blur, unlike input, change and reset, does not bubble
bubbles(type) == type # "blur"

\* dispatch that runs the listeners of the form before those of the target
dispatchEventFormFirst(d, ls, type, x) ==
    LET AtTarget(l) == l.type = type /\ l.on = x
        AtForm(l) == /\ bubbles(type)
                     /\ x \in DOMAIN d.el
                     /\ d.el[x].form # ""
                     /\ l.type = type
                     /\ l.on = d.el[x].form
    IN  callListeners(d, SelectSeq(ls, AtForm) \o SelectSeq(ls, AtTarget))

dispatchEvent(d, ls, type, x) ==
    LET AtTarget(l) == l.type = type /\ l.on = x
        AtForm(l) == /\ bubbles(type)
                     /\ x \in DOMAIN d.el
                     /\ d.el[x].form # ""
                     /\ l.type = type
                     /\ l.on = d.el[x].form
    IN  callListeners(d, SelectSeq(ls, AtTarget) \o SelectSeq(ls, AtForm))

dispatchInput(d, ls, x) == dispatchEvent(d, ls, "input", x)

----------------------------------------------------------------------------
(* The host: what a user can enter and which ValidityState the browser      *)
(* reports for it.  valueMissing follows the HTML rule (required and no    *)
(* value, for a file control no file); every other flag may be raised only *)
(* when the control carries the constraint it reports, and, badInput       *)
(* aside, only on a value that is not empty.                               *)

Chars == {" ", "a"}

Values == UNION {[1..k -> Chars] : k \in 0..MaxLen}

FileSet ==
    { [name |-> <<"a", ".", "P", "N", "G">>, type |-> <<"i","m","a","g","e","/","x","-","p","n","g">>],
      [name |-> <<"a", ".", "t", "x", "t">>, type |-> <<"t","e","x","t","/","p","l","a","i","n">>],
      [name |-> <<"c">>,                     type |-> <<"i","m","a","g","e","/","g","i","f">>],
      [name |-> <<"b">>,                     type |-> <<>>] }

Selections == UNION {[1..k -> FileSet] : k \in 0..MaxFiles}

\* the value property of a file control: C:\fakepath\ and the first name
fileValue(files) ==
    IF files = <<>> THEN <<>>
    ELSE <<"C", ":", "\\", "f", "a", "k", "e", "p", "a", "t", "h", "\\">> \o files[1].name

valueMissing(e, v, files) ==
    hasAttribute(e, "required") /\ (IF e.type = "file" THEN files = <<>> ELSE v = <<>>)

\* the flags that report a constraint attribute
constraints ==
    { [flag |-> "patternMismatch", attr |-> "pattern"],
      [flag |-> "tooLong",         attr |-> "maxlength"],
      [flag |-> "tooShort",        attr |-> "minlength"],
      [flag |-> "rangeOverflow",   attr |-> "max"],
      [flag |-> "rangeUnderflow",  attr |-> "min"],
      [flag |-> "stepMismatch",    attr |-> "step"] }

raisable(e) ==
    {c.flag : c \in {k \in constraints : hasAttribute(e, k.attr)}}
    \cup (IF e.type \in {"email", "number"} THEN {"typeMismatch", "badInput"} ELSE {})

hostValidities(e, v, files) ==
    {S \in SUBSET (raisable(e) \cup {"valueMissing"}) :
        /\ Cardinality(S) <= MaxFlags
        /\ ("valueMissing" \in S) <=> valueMissing(e, v, files)
        /\ (v = <<>>) => S \subseteq {"valueMissing", "badInput"}}

\* the controls a user can type into or pick files for
editable(e) ==
    e.tag \in {"INPUT", "TEXTAREA", "SELECT"} /\ e.type \notin {"submit", "button"} /\ ~e.disabled

----------------------------------------------------------------------------
(* Documents.                                                              *)

NoAttrs == [x \in {} |-> ""]

\* an element as the parser leaves it: no value, no file, and the validity
\* the host reports for that
Element(tag, type, form, index, as) ==
    LET e == [tag |-> tag, type |-> type, form |-> form, index |-> index, attrs |-> as,
              value |-> <<>>, files |-> <<>>, validity |-> {}, disabled |-> FALSE]
    IN  [e EXCEPT !.validity = IF valueMissing(e, <<>>, <<>>) THEN {"valueMissing"} ELSE {}]

MessageElement == [classes |-> {"help"}, text |-> ""]

Required == "required" :> ""

customText(a) == "custom " \o a

\* ways of giving the message attributes A: none, one of them with a text
\* or left blank, all of them with a text
customs(A) ==
    {NoAttrs} \cup {a :> customText(a) : a \in A} \cup {a :> "" : a \in A}
              \cup {[a \in A |-> customText(a)]}

\* accept filters: "", ".png,image/*", " .PNG , text/plain", "image/x-png", ".txt,"
AcceptFilters ==
    { <<>>,
      <<".","p","n","g",",","i","m","a","g","e","/","*">>,
      <<" ",".","P","N","G"," ",","," ","t","e","x","t","/","p","l","a","i","n">>,
      <<"i","m","a","g","e","/","x","-","p","n","g">>,
      <<".","t","x","t",",">> }

AllConstraints ==
    ("min" :> "1") @@ ("max" :> "9") @@ ("step" :> "2") @@ ("minlength" :> "2")
    @@ ("maxlength" :> "8") @@ ("pattern" :> "[0-9]+")

GenericMessageAttrs ==
    {"data-required-err", "data-type-err", "data-pattern-err", "data-maxlength-err",
     "data-minlength-err", "data-max-err", "data-min-err", "data-step-err", "data-success"}

DescribedByT == "aria-describedby" :> "t"

\* one control with every constraint, no confirm-origin
GenericDocs ==
    { [el |-> "c" :> Element("INPUT", "email", "f", 1,
                             AllConstraints @@ req @@ cust @@ DescribedByT),
       target |-> "t" :> MessageElement] :
      req \in {NoAttrs, Required}, cust \in customs(GenericMessageAttrs) }

\* a control c that names a confirm-origin: the control o, an element that
\* does not exist, or nothing
ConfirmDocs ==
    { [el |-> ("o" :> Element("INPUT", "text", "f", 1, NoAttrs))
              @@ ("c" :> Element("INPUT", "text", "f", 2,
                                 ("data-confirm" :> origin) @@ req @@ patt @@ cust @@ DescribedByT)),
       target |-> "t" :> MessageElement] :
      origin \in {"#o", "#nope", ""},
      req \in {NoAttrs, Required},
      patt \in {NoAttrs, "pattern" :> "[0-9]+"},
      cust \in customs({"data-confirm-err", "data-required-err"}) }

\* a file control c with an accept filter
FileDocs ==
    { [el |-> "c" :> Element("INPUT", "file", "f", 1,
                             ("accept" :> filter) @@ req @@ cust @@ DescribedByT),
       target |-> "t" :> MessageElement] :
      filter \in AcceptFilters,
      req \in {NoAttrs, Required},
      cust \in customs({"data-accept-err"}) }

\* a file control c with an accept filter that must also equal the control o
FileConfirmDocs ==
    { [el |-> ("o" :> Element("INPUT", "text", "f", 1, NoAttrs))
              @@ ("c" :> Element("INPUT", "file", "f", 2,
                                 ("accept" :> filter) @@ Required @@ ("data-confirm" :> "#o")
                                 @@ cust @@ DescribedByT)),
       target |-> "t" :> MessageElement] :
      filter \in AcceptFilters,
      cust \in customs({"data-accept-err"}) }

ControlDocs == GenericDocs \cup ConfirmDocs \cup FileDocs \cup FileConfirmDocs

----------------------------------------------------------------------------
(* Steps.                                                                  *)

NoEvent == [type |-> "", target |-> ""]

Start(doc) ==
    /\ el = doc.el
    /\ target = doc.target
    /\ forms = {}
    /\ listeners = <<>>
    /\ event = NoEvent
    /\ run = <<>>
    /\ log = <<>>
    /\ pc = "loading"

\* the script's only entry: the DOMContentLoaded listener
DOMContentLoaded ==
    /\ pc = "loading"
    /\ LET r == initValidators([d |-> [el |-> el, target |-> target, log |-> <<>>, run |-> <<>>],
                                listeners |-> listeners], forms)
       IN  /\ el' = r.w.d.el
           /\ target' = r.w.d.target
           /\ log' = r.w.d.log
           /\ run' = r.w.d.run
           /\ listeners' = r.w.listeners
           /\ forms' = r.forms
    /\ event' = [type |-> "DOMContentLoaded", target |-> "document"]
    /\ pc' = "ready"

\* the user gives control x the value v (for a file control, the files fs),
\* the host reports the validity S, and the input event is dispatched
UserInput(x, v, fs, S) ==
    /\ editable(el[x])
    /\ IF el[x].type = "file" THEN v = fileValue(fs) ELSE fs = <<>>
    /\ S \in hostValidities(el[x], v, fs)
    /\ LET d0 == [el |-> [el EXCEPT ![x].value = v, ![x].files = fs, ![x].validity = S],
                  target |-> target, log |-> <<>>, run |-> <<>>]
           d1 == dispatchInput(d0, listeners, x)
       IN  /\ el' = d1.el
           /\ target' = d1.target
           /\ log' = d1.log
           /\ run' = d1.run
    /\ event' = [type |-> "input", target |-> x]
    /\ UNCHANGED <<forms, listeners, pc>>

Interact ==
    \E x \in DOMAIN el :
        \E fs \in (IF el[x].type = "file" THEN Selections ELSE {<<>>}) :
            \E v \in (IF el[x].type = "file" THEN {fileValue(fs)} ELSE Values) :
                \E S \in hostValidities(el[x], v, fs) : UserInput(x, v, fs, S)

Next == DOMContentLoaded \/ Interact

----------------------------------------------------------------------------
(* A sign-up form f as in the README: a password pw, its confirmation cf   *)
(* and a submit button btn, each control with its message element.  pw is  *)
(* inside f or stands outside any form; cf and btn come in the varieties   *)
(* below, and the message element of cf may be missing.                    *)

ConfirmPw == "data-confirm" :> "#pw"

CfVarieties ==
    { ConfirmPw,                                       \* the README's markup
      Required @@ ConfirmPw,
      ("pattern" :> "[0-9]+") @@ ConfirmPw,
      Required @@ ("data-confirm" :> "#nope"),         \* origin missing
      Required @@ ConfirmPw @@ ("data-ignore" :> ""),  \* opted out
      Required,                                        \* no confirm-origin
      NoAttrs }                                        \* nothing to validate

\* the README's submit button, a button that does not submit, and a
\* fieldset that opens the form
BtnVarieties ==
    { [Element("BUTTON", "submit", "f", 3, "data-submit" :> "") EXCEPT !.disabled = TRUE],
      Element("BUTTON", "button", "f", 3, "data-submit" :> ""),
      Element("FIELDSET", "fieldset", "f", 0, "data-submit" :> "") }

\* a document without the message element a control refers to
NoElements == [x \in {} |-> MessageElement]

FormDocs ==
    { [el |-> ("pw" :> Element("INPUT", "password", pwForm, 1,
                               Required @@ ("aria-describedby" :> "pwHelp")))
              @@ ("cf" :> Element("INPUT", "password", "f", 2,
                                  cf @@ ("aria-describedby" :> "cfHelp")))
              @@ ("btn" :> btn),
       target |-> ("pwHelp" :> MessageElement) @@ cfHelp] :
      pwForm \in {"f", ""}, cf \in CfVarieties, btn \in BtnVarieties,
      cfHelp \in {"cfHelp" :> MessageElement, NoElements} }

\* the sign-up form whose two controls name each other as confirm-origin
MutualDocs ==
    { [el |-> ("pw" :> Element("INPUT", "password", "f", 1,
                               Required @@ ("data-confirm" :> "#cf")
                               @@ ("aria-describedby" :> "pwHelp")))
              @@ ("cf" :> Element("INPUT", "password", "f", 2,
                                  Required @@ ConfirmPw @@ ("aria-describedby" :> "cfHelp")))
              @@ ("btn" :> [Element("BUTTON", "submit", "f", 3, "data-submit" :> "")
                               EXCEPT !.disabled = TRUE]),
       target |-> ("pwHelp" :> MessageElement) @@ ("cfHelp" :> MessageElement)] }

Init == \E doc \in FormDocs \cup MutualDocs : Start(doc)

Spec == Init /\ [][Next]_vars

----------------------------------------------------------------------------
(* The page beyond input events: the host also fires change and blur       *)
(* events at a control, resets a form, and scripts insert forms after the  *)
(* load.  The README names all four; the script listens to none of them.   *)

\* the host fires an event that leaves the value of control x as it is
Notify(type, x) ==
    /\ editable(el[x])
    /\ LET d1 == dispatchEvent([el |-> el, target |-> target, log |-> <<>>, run |-> <<>>],
                               listeners, type, x)
       IN  /\ el' = d1.el
           /\ target' = d1.target
           /\ log' = d1.log
           /\ run' = d1.run
    /\ event' = [type |-> type, target |-> x]
    /\ UNCHANGED <<forms, listeners, pc>>

Change == \E x \in DOMAIN el : Notify("change", x)

Blur == \E x \in DOMAIN el : Notify("blur", x)

\* the form reset algorithm on one control: the default value, no file, and
\* the validity of that; attributes stay
resetControl(e) ==
    [e EXCEPT !.value = <<>>, !.files = <<>>,
              !.validity = IF valueMissing(e, <<>>, <<>>) THEN {"valueMissing"} ELSE {}]

\* form f is reset: the reset event is fired at f, then its controls are
\* reset
Reset(f) ==
    /\ \E i \in DOMAIN el : el[i].form = f
    /\ LET d1 == dispatchEvent([el |-> el, target |-> target, log |-> <<>>, run |-> <<>>],
                               listeners, "reset", f)
       IN  /\ el' = [i \in DOMAIN el |->
                        IF d1.el[i].form = f THEN resetControl(d1.el[i]) ELSE d1.el[i]]
           /\ target' = d1.target
           /\ log' = d1.log
           /\ run' = d1.run
    /\ event' = [type |-> "reset", target |-> f]
    /\ UNCHANGED <<forms, listeners, pc>>

FormReset == \E k \in 1..Len(Forms) : Reset(Forms[k])

\* after the load a script inserts the form g: a required control q and its
\* message element; no event of the script's is involved
InsertForm ==
    /\ pc = "ready"
    /\ "q" \notin DOMAIN el
    /\ el' = el @@ ("q" :> Element("INPUT", "text", "g", 4,
                                   Required @@ ("aria-describedby" :> "qHelp")))
    /\ target' = target @@ ("qHelp" :> MessageElement)
    /\ event' = NoEvent
    /\ run' = <<>>
    /\ log' = <<>>
    /\ UNCHANGED <<forms, listeners, pc>>

NextPage == DOMContentLoaded \/ Interact \/ Change \/ Blur \/ FormReset \/ InsertForm

\* the README's sign-up form, the confirmation required or with a pattern
PageDocs ==
    { [el |-> ("pw" :> Element("INPUT", "password", "f", 1,
                               Required @@ ("aria-describedby" :> "pwHelp")))
              @@ ("cf" :> Element("INPUT", "password", "f", 2,
                                  cf @@ ConfirmPw @@ ("aria-describedby" :> "cfHelp")))
              @@ ("btn" :> [Element("BUTTON", "submit", "f", 3, "data-submit" :> "")
                               EXCEPT !.disabled = TRUE]),
       target |-> ("pwHelp" :> MessageElement) @@ ("cfHelp" :> MessageElement)] :
      cf \in {Required, "pattern" :> "[0-9]+"} }

InitPage == \E doc \in PageDocs : Start(doc)

SpecPage == InitPage /\ [][NextPage]_vars

----------------------------------------------------------------------------
(* One resolution of the control c: the input listener of c runs once on   *)
(* a document in which c has any value and validity the host can give it,  *)
(* the origin o any value, and c shows the outcome of an earlier           *)
(* resolution.                                                             *)

\* what an earlier resolution left on control i and its message element
prior(doc, i, p) ==
    CASE p = "Invalid" ->
           [doc EXCEPT !.el[i] = setAttribute(@, "aria-invalid", "true"),
                       !.target["t"] = [classes |-> {"help", "invalid"}, text |-> "old error"]]
      [] p = "Valid" ->
           [doc EXCEPT !.el[i] = setAttribute(@, "aria-invalid", "false"),
                       !.target["t"] = [classes |-> {"help", "valid"}, text |-> "old success"]]
      [] OTHER -> doc

\* the earlier outcomes tried: all of them on the controls that reach every
\* branch of validateInput by themselves and on those whose origin is
\* missing, none on the others
priors(doc) ==
    IF \/ DOMAIN doc.el = {"c"} /\ doc.el["c"].type # "file"
       \/ getAttributeOr(doc.el["c"], "data-confirm", "") = "#nope"
    THEN {"None", "Invalid", "Valid"}
    ELSE {"None"}

\* control i holding value v, files fs and validity S
entered(doc, i, v, fs, S) ==
    [doc EXCEPT !.el[i].value = v, !.el[i].files = fs, !.el[i].validity = S]

InitResolve ==
    \E doc \in ControlDocs :
        \E fs \in (IF doc.el["c"].type = "file" THEN Selections ELSE {<<>>}) :
            \E v \in (IF doc.el["c"].type = "file" THEN {fileValue(fs)} ELSE Values) :
                \E S \in hostValidities(doc.el["c"], v, fs) :
                    \E ov \in (IF "o" \in DOMAIN doc.el THEN Values ELSE {<<>>}) :
                        \E p \in priors(doc) :
                            LET d1 == prior(entered(doc, "c", v, fs, S), "c", p)
                                d2 == IF "o" \in DOMAIN doc.el
                                      THEN entered(d1, "o", ov, <<>>, {})
                                      ELSE d1
                            IN  /\ el = d2.el
                                /\ target = d2.target
                                /\ forms = {}
                                /\ listeners = <<>>
                                /\ event = [type |-> "input", target |-> "c"]
                                /\ run = <<>>
                                /\ log = <<>>
                                /\ pc = "resolve"

\* the listener () => validateInput(input) of control c
Resolve ==
    /\ pc = "resolve"
    /\ LET d1 == validateInput([el |-> el, target |-> target, log |-> <<>>, run |-> <<>>], "c")
       IN  /\ el' = d1.el
           /\ target' = d1.target
           /\ log' = d1.log
           /\ run' = d1.run
    /\ pc' = "resolved"
    /\ UNCHANGED <<forms, listeners, event>>

SpecResolve == InitResolve /\ [][Resolve]_vars

----------------------------------------------------------------------------
(* What the claims speak of.                                               *)

\* the aria-invalid attribute of control i: "true", "false" or "absent"
ariaInvalid(i) ==
    IF hasAttribute(el[i], "aria-invalid") THEN el[i].attrs["aria-invalid"] ELSE "absent"

\* the state classes the message element t carries
stateClasses(t) == target[t].classes \cap {"valid", "invalid"}

\* the last step resolved control i, taking the branch st
resolvedAs(i, st) ==
    \E k \in 1..Len(run) : run[k] = [fn |-> "validateInput", arg |-> i, state |-> st]

\* the attribute table of the specification, in its priority order
SpecTable ==
    << <<"valueMissing",    "data-required-err",  "This field is required.">>,
       <<"typeMismatch",    "data-type-err",      "The value is not the correct type.">>,
       <<"patternMismatch", "data-pattern-err",   "The value does not match the required pattern.">>,
       <<"tooLong",         "data-maxlength-err", "The value is too long.">>,
       <<"tooShort",        "data-minlength-err", "The value is too short.">>,
       <<"rangeOverflow",   "data-max-err",       "The value is too large.">>,
       <<"rangeUnderflow",  "data-min-err",       "The value is too small.">>,
       <<"stepMismatch",    "data-step-err",      "The value does not match the step interval.">>,
       <<"badInput",        "data-type-err",      "The input value is invalid.">> >>

\* the text of message attribute a on element e when it gives one, else dflt
\* (an attribute left blank gives no message)
messageOr(e, a, dflt) ==
    IF a \in DOMAIN e.attrs /\ e.attrs[a] # "" THEN e.attrs[a] ELSE dflt

\* the message of the first flag, in table order, that is set on e
expectedGeneric(e) ==
    LET k == CHOOSE j \in 1..Len(SpecTable) :
                 /\ SpecTable[j][1] \in e.validity
                 /\ \A h \in 1..(j - 1) : SpecTable[h][1] \notin e.validity
    IN  messageOr(e, SpecTable[k][2], SpecTable[k][3])

\* file-accept matching as the specification words it
tokenMatches(tok, file) ==
    LET name == toLowerCase(file.name)
        mime == toLowerCase(file.type)
    IN  IF Len(tok) >= 1 /\ tok[1] = "."
        THEN \E k \in 0..Len(name) : SubSeq(name, k + 1, Len(name)) = tok
        ELSE IF Len(tok) >= 2 /\ SubSeq(tok, Len(tok) - 1, Len(tok)) = <<"/", "*">>
             THEN \E k \in 0..Len(mime) : SubSeq(mime, 1, k) = SubSeq(tok, 1, Len(tok) - 1)
             ELSE mime = tok

acceptPasses(filter, files) ==
    LET toks == {toLowerCase(trim(split(filter)[k])) : k \in 1..Len(split(filter))}
    IN  \A n \in 1..Len(files) : \E tok \in toks : tokenMatches(tok, files[n])

\* control e is a file control whose selection fails its accept filter
failsAccept(e) ==
    /\ e.type = "file"
    /\ hasAttribute(e, "accept")
    /\ e.attrs["accept"] # <<>>
    /\ e.files # <<>>
    /\ ~acceptPasses(e.attrs["accept"], e.files)

\* C1: a control without a confirm-origin that does not fail the accept check
\* and has some validity flag set is resolved Invalid, and the message
\* resolved and shown is that of the first set flag in the fixed order
\* (custom attribute text, else the default).
C1_FirstSetFlagWins ==
    (/\ pc = "resolved"
     /\ ~hasAttribute(el["c"], "data-confirm")
     /\ ~failsAccept(el["c"])
     /\ el["c"].validity # {})
    => /\ resolvedAs("c", "Invalid")
       /\ getError([el |-> el, target |-> target], "c").msg = expectedGeneric(el["c"])
       /\ target["t"].text = expectedGeneric(el["c"])

C1_Witness ==
    /\ pc = "resolved"
    /\ el["c"].validity = {"tooLong", "tooShort"}
    /\ "data-minlength-err" \in DOMAIN el["c"].attrs
    /\ target["t"].text = "The value is too long."

\* control i names the existing control o as its confirm-origin
confirms(i, o) ==
    /\ hasAttribute(el[i], "data-confirm")
    /\ o \in DOMAIN el
    /\ el[i].attrs["data-confirm"] = "#" \o o

\* C4: a dependent whose origin exists and holds a value, resolved while its
\* own value is empty (and the host reports it valid), comes out Neutral:
\* no aria-invalid, no state class, no text.
C4_EmptyDependentIsNeutral ==
    (/\ pc = "resolved"
     /\ confirms("c", "o")
     /\ el["o"].value # <<>>
     /\ el["c"].value = <<>>
     /\ el["c"].validity = {})
    => /\ ariaInvalid("c") = "absent"
       /\ stateClasses("t") = {}
       /\ target["t"].text = ""

\* C5: a dependent (not a file control) whose origin exists and whose
\* trimmed value is not empty is Valid when its value equals the origin's,
\* and otherwise Invalid with the data-confirm-err text or "Values do not
\* match.".
C5_ConfirmPair ==
    (/\ pc = "resolved"
     /\ confirms("c", "o")
     /\ el["c"].type # "file"
     /\ trim(el["c"].value) # <<>>)
    => IF el["c"].value = el["o"].value
       THEN resolvedAs("c", "Valid") /\ ariaInvalid("c") = "false"
       ELSE /\ resolvedAs("c", "Invalid")
            /\ ariaInvalid("c") = "true"
            /\ target["t"].text = messageOr(el["c"], "data-confirm-err", "Values do not match.")

\* C6: a file control whose selection fails its accept filter is resolved
\* Invalid with the data-accept-err text or "Invalid file type.", whatever
\* validity the host reports.
C6_AcceptFailureIsInvalid ==
    (pc = "resolved" /\ failsAccept(el["c"]))
    => /\ ariaInvalid("c") = "true"
       /\ "invalid" \in target["t"].classes
       /\ target["t"].text = messageOr(el["c"], "data-accept-err", "Invalid file type.")

\* the filter and the two files of the specification's example
exampleFilter == <<".","p","n","g",",","i","m","a","g","e","/","*">>
examplePng == [name |-> <<"a", ".", "P", "N", "G">>, type |-> <<"i","m","a","g","e","/","x","-","p","n","g">>]
exampleTxt == [name |-> <<"a", ".", "t", "x", "t">>, type |-> <<"t","e","x","t","/","p","l","a","i","n">>]

\* C7: with an accept filter that is not empty, the accept check passes
\* exactly when every selected file matches some token (suffix, MIME prefix
\* or exact MIME type, case-insensitively); an Invalid file control shows the
\* accept message exactly when the check fails; with ".png,image/*", a.PNG
\* (image/x-png) passes and a.txt (text/plain) fails.
C7_AcceptMatching ==
    (el["c"].type = "file" /\ el["c"].attrs["accept"] # <<>>)
    => /\ isValidAccept(el["c"]) <=> acceptPasses(el["c"].attrs["accept"], el["c"].files)
       /\ (pc = "resolved" /\ el["c"].files # <<>> /\ resolvedAs("c", "Invalid"))
          => ((target["t"].text = messageOr(el["c"], "data-accept-err", "Invalid file type."))
              <=> ~acceptPasses(el["c"].attrs["accept"], el["c"].files))
       /\ (el["c"].attrs["accept"] = exampleFilter /\ el["c"].files = <<examplePng>>)
          => isValidAccept(el["c"])
       /\ (el["c"].attrs["accept"] = exampleFilter /\ el["c"].files = <<exampleTxt>>)
          => ~isValidAccept(el["c"])

C7_Witness ==
    /\ pc = "resolved"
    /\ el["c"].type = "file"
    /\ Len(el["c"].files) = 2
    /\ acceptPasses(el["c"].attrs["accept"], <<el["c"].files[1]>>)
    /\ ~acceptPasses(el["c"].attrs["accept"], <<el["c"].files[2]>>)
    /\ target["t"].text = "Invalid file type."

\* C8: a control with required and an empty value is resolved Invalid and
\* shows the data-required-err text or "This field is required.", whatever
\* else it carries.
C8_RequiredEmptyShowsRequired ==
    (/\ pc = "resolved"
     /\ hasAttribute(el["c"], "required")
     /\ el["c"].value = <<>>)
    => /\ ariaInvalid("c") = "true"
       /\ target["t"].text = messageOr(el["c"], "data-required-err", "This field is required.")

\* C9: with a message element present, Invalid leaves aria-invalid "true",
\* class "invalid" and not "valid", and the resolved message as text; Valid
\* leaves "false", "valid" and not "invalid", and the data-success text or
\* nothing; Neutral leaves no aria-invalid, neither class and no text.
C9_SynchronizerEffects ==
    pc = "resolved" =>
        /\ resolvedAs("c", "Invalid") =>
              /\ ariaInvalid("c") = "true"
              /\ stateClasses("t") = {"invalid"}
              /\ target["t"].text = getError([el |-> el, target |-> target], "c").msg
        /\ resolvedAs("c", "Valid") =>
              /\ ariaInvalid("c") = "false"
              /\ stateClasses("t") = {"valid"}
              /\ target["t"].text = messageOr(el["c"], "data-success", "")
        /\ resolvedAs("c", "Neutral") =>
              /\ ariaInvalid("c") = "absent"
              /\ stateClasses("t") = {}
              /\ target["t"].text = ""

C9_Witness ==
    /\ pc = "resolved"
    /\ resolvedAs("c", "Valid")
    /\ target["t"] = [classes |-> {"help", "valid"}, text |-> customText("data-success")]

\* what can be observed of control i and message element t in document d
observable(d, i, t) ==
    [aria    |-> IF hasAttribute(d.el[i], "aria-invalid") THEN d.el[i].attrs["aria-invalid"] ELSE "absent",
     classes |-> d.target[t].classes \cap {"valid", "invalid"},
     text    |-> d.target[t].text]

Decisions == {"Invalid", "Valid", "Neutral"}

\* C10: when a resolution has applied a decision D1 to a control, applying
\* any decision D2 next leaves what applying D2 alone to the earlier state
\* would have left, and applying D1 again changes nothing.
C10_LastWriteWins ==
    [][LET pre  == [el |-> el, target |-> target, log |-> <<>>, run |-> <<>>]
           post == [el |-> el', target |-> target', log |-> <<>>, run |-> <<>>]
       IN  /\ \A D2 \in Decisions :
                 observable(applyDecision(post, "c", D2), "c", "t")
                     = observable(applyDecision(pre, "c", D2), "c", "t")
           /\ observable(applyDecision(post, "c", run'[1].state), "c", "t")
                 = observable(post, "c", "t")]_vars

C10_Witness ==
    /\ pc = "resolved"
    /\ resolvedAs("c", "Valid")
    /\ LET cur == [el |-> el, target |-> target, log |-> <<>>, run |-> <<>>]
       IN  observable(applyDecision(cur, "c", "Neutral"), "c", "t") # observable(cur, "c", "t")

\* element s is a submit control the registration of its form accepted
acceptedSubmit(s) ==
    /\ hasAttribute(el[s], "data-submit")
    /\ el[s].tag \in {"INPUT", "BUTTON"}
    /\ el[s].type = "submit"
    /\ el[s].form \in forms

\* C2: between handler runs, an accepted submit control of a registered form
\* is disabled exactly when the form is not natively valid or some control
\* of the form carries aria-invalid="true".
C2_SubmitGating ==
    pc = "ready" =>
        \A s \in DOMAIN el :
            acceptedSubmit(s) =>
                (el[s].disabled <=>
                    ~(/\ \A i \in DOMAIN el :
                             (el[i].form = el[s].form /\ ~el[i].disabled) => el[i].validity = {}
                      /\ \A i \in DOMAIN el :
                             el[i].form = el[s].form => ariaInvalid(i) # "true"))

\* C3: once the form is registered, an input event that changes the origin's
\* value to one that differs from the unchanged, non-empty value of a
\* dependent (one that has not opted out) leaves the dependent marked
\* Invalid.
C3_OriginChangeResolvesDependent ==
    [][\A c \in DOMAIN el : \A o \in DOMAIN el :
           (/\ pc = "ready"
            /\ el[c].form \in forms
            /\ confirms(c, o)
            /\ ~hasAttribute(el[c], "data-ignore")
            /\ el'[o].value # el[o].value
            /\ el'[c].value = el[c].value
            /\ trim(el[c].value) # <<>>
            /\ el'[o].value # el'[c].value)
           => (hasAttribute(el'[c], "aria-invalid") /\ el'[c].attrs["aria-invalid"] = "true")]_vars

----------------------------------------------------------------------------
(* Registration.                                                           *)

\* the document and listeners as they stand
current == [d |-> [el |-> el, target |-> target, log |-> <<>>, run |-> <<>>],
            listeners |-> listeners]

\* the number of further registration passes tried
MaxPasses == 2

\* n registration passes in a row, from the wiring w and the set fs
RECURSIVE passes(_, _, _)
passes(w, fs, n) ==
    IF n = 0 THEN [w |-> w, forms |-> fs]
    ELSE LET r == initValidators(w, fs) IN passes(r.w, r.forms, n - 1)

\* control i is eligible for wiring: a validatable tag in a registered form,
\* not opted out, with a recognised validation attribute
eligible(i) ==
    /\ el[i].form \in forms
    /\ el[i].tag \in {"INPUT", "TEXTAREA", "SELECT"}
    /\ ~hasAttribute(el[i], "data-ignore")
    /\ DOMAIN el[i].attrs \cap
          {"accept", "min", "max", "step", "minlength", "maxlength", "pattern", "required"} # {}

\* eligible control i names the existing element x as its confirm-origin
dependentOn(i, x) ==
    /\ eligible(i)
    /\ hasAttribute(el[i], "data-confirm")
    /\ el[i].attrs["data-confirm"] = "#" \o x

\* how often handler fn ran on arg in the run r
ranTimes(r, fn, arg) ==
    Cardinality({k \in 1..Len(r) : r[k].fn = fn /\ r[k].arg = arg})

Bit(b) == IF b THEN 1 ELSE 0

\* C11: on a registered form, any number of further registration passes
\* attach no listener and change nothing, so that one input event on a
\* control x resolves x once if it is eligible, each dependent wired to x
\* once, and evaluates the gating of each accepted submit control of x's
\* form once; the registration set never loses a form.
C11_RegistrationIdempotent ==
    /\ [](pc = "ready" =>
            \A n \in 0..MaxPasses :
                LET r == passes(current, forms, n)
                IN  /\ r.w.listeners = listeners
                    /\ r.w.d = current.d
                    /\ forms \subseteq r.forms
                    /\ \A x \in DOMAIN el :
                           LET ran == dispatchInput(current.d, r.w.listeners, x).run
                           IN  /\ \A i \in DOMAIN el :
                                      ranTimes(ran, "validateInput", i)
                                        = Bit(i = x /\ eligible(i)) + Bit(dependentOn(i, x))
                               /\ \A s \in DOMAIN el :
                                      ranTimes(ran, "handleFormSubmitControl", s)
                                        = Bit(acceptedSubmit(s) /\ el[x].form = el[s].form))
    /\ [][forms \subseteq forms']_vars

\* a registered form whose confirmation is wired to itself and to its origin
\* and whose submit control is gated, after an input event
C11_Witness ==
    /\ pc = "ready"
    /\ "f" \in forms
    /\ eligible("pw") /\ dependentOn("cf", "pw") /\ acceptedSubmit("btn")
    /\ Len(run) = 3
    /\ passes(current, forms, MaxPasses).w.listeners = listeners

----------------------------------------------------------------------------
(* Opt-out.                                                                *)

\* the message element control i refers to, "" when it names none
describedBy(i) == getAttributeOr(el[i], "aria-describedby", "")

\* C12: a control that carries data-ignore is never resolved and never
\* synchronized: no handler run is about it, it has no aria-invalid
\* attribute and its message element is as the document was loaded.
C12_OptOutUntouched ==
    \A i \in DOMAIN el :
        hasAttribute(el[i], "data-ignore") =>
            /\ ranTimes(run, "validateInput", i) = 0
            /\ ariaInvalid(i) = "absent"
            /\ describedBy(i) \in DOMAIN target => target[describedBy(i)] = MessageElement

\* an opted-out confirmation that was typed into, after its origin was
\* given another value
C12_Witness ==
    /\ pc = "ready"
    /\ hasAttribute(el["cf"], "data-ignore")
    /\ trim(el["cf"].value) # <<>>
    /\ el["pw"].value # <<>>
    /\ el["pw"].value # el["cf"].value
    /\ el["cf"].validity = {}

----------------------------------------------------------------------------
(* Unmanaged controls.                                                     *)

\* control i has no recognised validation attribute and no custom kind
plain(i) ==
    /\ el[i].tag \in {"INPUT", "TEXTAREA", "SELECT"}
    /\ DOMAIN el[i].attrs \cap
          {"accept", "min", "max", "step", "minlength", "maxlength", "pattern", "required",
           "data-confirm"} = {}

\* C13: a control without any recognised validation attribute and without a
\* custom kind is Neutral with an empty message whatever its value and
\* whatever input events have happened.
C13_PlainControlIsNeutral ==
    \A i \in DOMAIN el :
        plain(i) =>
            /\ ariaInvalid(i) = "absent"
            /\ ranTimes(run, "validateInput", i) = 0
            /\ describedBy(i) \in DOMAIN target =>
                   /\ stateClasses(describedBy(i)) = {}
                   /\ target[describedBy(i)].text = ""

\* a plain control of a registered form that holds a value, after input
\* events on it and on another control
C13_Witness ==
    /\ pc = "ready"
    /\ plain("cf")
    /\ el["cf"].form \in forms
    /\ trim(el["cf"].value) # <<>>
    /\ resolvedAs("pw", "Valid")

----------------------------------------------------------------------------
(* Returning to Neutral.                                                   *)

\* C14: when an input event empties the value of a control that is shown
\* Valid and has no required attribute, the control becomes Neutral, not
\* Invalid; and a control becomes Neutral only with a value that is empty
\* once trimmed.
C14_ResetToEmpty ==
    [][\A i \in DOMAIN el :
           /\ (/\ pc = "ready"
               /\ event' = [type |-> "input", target |-> i]
               /\ ariaInvalid(i) = "false"
               /\ el[i].value # <<>>
               /\ el'[i].value = <<>>
               /\ el'[i].validity = {}
               /\ ~hasAttribute(el[i], "required"))
              => ~hasAttribute(el'[i], "aria-invalid")
           /\ (hasAttribute(el[i], "aria-invalid") /\ ~hasAttribute(el'[i], "aria-invalid"))
              => trim(el'[i].value) = <<>>]_vars

----------------------------------------------------------------------------
(* Rejected submit controls.                                               *)

\* element s is marked data-submit but is not an INPUT or BUTTON of type
\* submit
rejectedSubmit(s) ==
    /\ hasAttribute(el[s], "data-submit")
    /\ ~(el[s].tag \in {"INPUT", "BUTTON"} /\ el[s].type = "submit")

\* control i has its own input listener
listensTo(i) ==
    \E k \in 1..Len(listeners) :
        listeners[k] = [on |-> i, type |-> "input", fn |-> "validateInput", arg |-> i]

\* C15: a data-submit element that is not an INPUT or BUTTON of type submit
\* is rejected: the registration pass logs an error, the element stays
\* enabled and its gating never runs, and the pass still registers the form
\* and wires its eligible controls.
C15_RejectedSubmit ==
    /\ [](\A s \in DOMAIN el :
              rejectedSubmit(s) =>
                  /\ ~el[s].disabled
                  /\ ranTimes(run, "handleFormSubmitControl", s) = 0
                  /\ \A k \in 1..Len(listeners) : listeners[k].arg # s
                  /\ pc = "ready" =>
                         /\ el[s].form \in forms
                         /\ \A i \in DOMAIN el : eligible(i) => listensTo(i))
    /\ [][(pc = "loading" /\ pc' = "ready" /\ \E s \in DOMAIN el : rejectedSubmit(s))
          => \E k \in 1..Len(log') :
                 log'[k] = "submission button expected to be of type input or button with type=submit"]_vars

\* a rejected element that opens a form which is not valid and holds an
\* Invalid control wired after it
C15_Witness ==
    /\ pc = "ready"
    /\ rejectedSubmit("btn")
    /\ el["btn"].index < el["cf"].index
    /\ listensTo("cf")
    /\ ariaInvalid("cf") = "true"
    /\ el["cf"].validity # {}

----------------------------------------------------------------------------
(* A confirm-origin that cannot be found.                                  *)

\* control i is wired and names a confirm-origin that no element matches
originMissing(i) ==
    /\ DOMAIN el[i].attrs \cap
          {"accept", "min", "max", "step", "minlength", "maxlength", "pattern", "required"} # {}
    /\ getAttributeOr(el[i], "data-confirm", "") # ""
    /\ \A o \in DOMAIN el : el[i].attrs["data-confirm"] # "#" \o o

\* the line isValidConfirm logs for control i
originNotFound(i) == "element not found for data-confirm=" \o el[i].attrs["data-confirm"]

----------------------------------------------------------------------------
(* A message element that cannot be found.                                 *)

\* control i refers to a message element the document does not hold
targetMissing(i) == describedBy(i) # "" /\ describedBy(i) \notin (DOMAIN target \cup DOMAIN el)

\* the message elements of the document and, empty, the missing ones
completed ==
    [t \in DOMAIN target \cup {describedBy(i) : i \in {j \in DOMAIN el : targetMissing(j)}} |->
        IF t \in DOMAIN target THEN target[t] ELSE MessageElement]

\* the aria-invalid value a decision stands for
markOf(st) ==
    CASE st = "Invalid" -> "true"
      [] st = "Valid"   -> "false"
      [] OTHER          -> "absent"

\* C17: when a control refers to a message element that does not exist, an
\* input event still runs to its end: each resolution of that control logs
\* the missing element and sets aria-invalid as decided, and every control,
\* every handler run and every other message element end as in the same
\* event on the document that holds the missing element.
C17_MissingTargetIsNotFatal ==
    [][(pc = "ready" /\ event'.type = "input" /\ \E i \in DOMAIN el : targetMissing(i))
       => /\ \A k \in 1..Len(run') :
                 (run'[k].fn = "validateInput" /\ targetMissing(run'[k].arg))
                 => /\ \E n \in 1..Len(log') :
                           log'[n] = "element not found for aria-describedby=" \o describedBy(run'[k].arg)
                    /\ markOf(run'[k].state)
                         = getAttributeOr(el'[run'[k].arg], "aria-invalid", "absent")
          /\ LET x == event'.target
                 d0 == [el |-> [el EXCEPT ![x] = [@ EXCEPT !.value = el'[x].value,
                                                           !.files = el'[x].files,
                                                           !.validity = el'[x].validity]],
                        target |-> completed, log |-> <<>>, run |-> <<>>]
                 d1 == dispatchInput(d0, listeners, x)
             IN  /\ d1.el = el'
                 /\ d1.run = run'
                 /\ \A t \in DOMAIN target : d1.target[t] = target'[t]]_vars

\* a control whose message element is missing resolved Valid, and a submit
\* control enabled by the gating run of the same event
C17_Witness ==
    /\ pc = "ready"
    /\ targetMissing("cf")
    /\ resolvedAs("cf", "Valid")
    /\ ariaInvalid("cf") = "false"
    /\ ariaInvalid("pw") = "false"
    /\ acceptedSubmit("btn") /\ ~el["btn"].disabled
    /\ ranTimes(run, "handleFormSubmitControl", "btn") = 1

----------------------------------------------------------------------------
(* Reset, change, blur and inserted forms.                                 *)

\* what control i and its message element show
shown(d, i) ==
    [mark |-> getAttributeOr(d.el[i], "aria-invalid", "absent"),
     message |-> LET t == getAttributeOr(d.el[i], "aria-describedby", "")
                 IN  IF t \in DOMAIN d.target
                     THEN [classes |-> d.target[t].classes \cap {"valid", "invalid"},
                           text |-> d.target[t].text]
                     ELSE [classes |-> {}, text |-> ""]]

Neutral == [mark |-> "absent", message |-> [classes |-> {}, text |-> ""]]

\* C18: when a registered form is reset, every managed control of the form
\* is Neutral after the reset event: no aria-invalid, no state class and no
\* text in its message element.
C18_ResetClearsValidation ==
    [][(pc = "ready" /\ event'.type = "reset" /\ event'.target \in forms)
       => \A i \in DOMAIN el :
              (eligible(i) /\ el[i].form = event'.target)
              => shown([el |-> el', target |-> target'], i) = Neutral]_vars

\* C19: a change event or a blur event on a wired control, without any
\* input event, leaves the control and its message element showing the
\* resolution of the value the control holds.
C19_ChangeAndBlurValidate ==
    [][(pc = "ready" /\ event'.type \in {"change", "blur"} /\ eligible(event'.target))
       => LET x == event'.target
              d1 == validateInput([el |-> el, target |-> target, log |-> <<>>, run |-> <<>>], x)
          IN  shown([el |-> el', target |-> target'], x) = shown(d1, x)]_vars

\* C20: a data-validate form inserted after the load pass is registered and
\* wired by the time an input event reaches one of its controls: the event
\* on a control that is a validatable tag, not opted out and with a
\* validation attribute is resolved and shown.
C20_InsertedFormIsWired ==
    [][(/\ pc = "ready"
        /\ event'.type = "input"
        /\ el[event'.target].form # ""
        /\ el[event'.target].tag \in {"INPUT", "TEXTAREA", "SELECT"}
        /\ ~hasAttribute(el[event'.target], "data-ignore")
        /\ DOMAIN el[event'.target].attrs \cap
              {"accept", "min", "max", "step", "minlength", "maxlength", "pattern", "required"} # {})
       => LET x == event'.target
          IN  /\ el[x].form \in forms'
              /\ ranTimes(run', "validateInput", x) = 1
              /\ \E k \in 1..Len(run') :
                     /\ run'[k].fn = "validateInput" /\ run'[k].arg = x
                     /\ markOf(run'[k].state) = getAttributeOr(el'[x], "aria-invalid", "absent")]_vars

----------------------------------------------------------------------------
(* Confirm-origin and the validity flags.                                  *)

\* C21: a control with a confirm-origin is resolved without the generic
\* validity table: whatever flags the host could report for the same value,
\* origin value and attributes, the resolution shows the same state and the
\* same message.
C21_ConfirmIgnoresFlags ==
    [][(pc = "resolve" /\ getAttributeOr(el["c"], "data-confirm", "") # "")
       => \A S \in hostValidities(el["c"], el["c"].value, el["c"].files) :
              shown(validateInput([el |-> [el EXCEPT !["c"].validity = S],
                                   target |-> target, log |-> <<>>, run |-> <<>>], "c"), "c")
                = shown([el |-> el', target |-> target'], "c")]_vars

----------------------------------------------------------------------------
(* The direction of the confirm dependency.                                *)

\* what the controls and message elements of the next state show
shownNext(i) == shown([el |-> el', target |-> target'], i)

shownNow(i) == shown([el |-> el, target |-> target], i)

\* C22 as stated: an input event on a control that names o as its
\* confirm-origin never resolves o and leaves what o and its message element
\* show, whatever the confirm references of the document.
C22_OriginUntouched ==
    [][(pc = "ready" /\ event'.type = "input")
       => \A o \in DOMAIN el :
              (o # event'.target /\ confirms(event'.target, o))
              => /\ ranTimes(run', "validateInput", o) = 0
                 /\ shownNext(o) = shownNow(o)]_vars

\* C22 amended: an input event on a control that names o as its
\* confirm-origin never resolves o and leaves what o and its message element
\* show, unless o in turn names that control as its own confirm-origin.
C22_OriginUntouchedUnlessMutual ==
    [][(pc = "ready" /\ event'.type = "input")
       => \A o \in DOMAIN el :
              (/\ o # event'.target
               /\ confirms(event'.target, o)
               /\ ~confirms(o, event'.target))
              => /\ ranTimes(run', "validateInput", o) = 0
                 /\ shownNext(o) = shownNow(o)]_vars

\* an input event on the wired confirmation that marked it Invalid while
\* its origin, which names no origin itself, is shown Valid
C22_Witness ==
    /\ pc = "ready"
    /\ event = [type |-> "input", target |-> "cf"]
    /\ dependentOn("cf", "pw")
    /\ ~hasAttribute(el["pw"], "data-confirm")
    /\ resolvedAs("cf", "Invalid")
    /\ shownNow("pw").mark = "false"

----------------------------------------------------------------------------
(* The state classes of a message element.                                 *)

\* C23: no message element ever carries the classes valid and invalid
\* together.
C23_StateClassesExclusive ==
    \A t \in DOMAIN target : ~({"valid", "invalid"} \subseteq target[t].classes)

\* one message element marked invalid by the event that was handled last,
\* next to one marked valid
C23_Witness ==
    /\ pc = "ready"
    /\ resolvedAs("pw", "Invalid")
    /\ stateClasses("pwHelp") = {"invalid"}
    /\ "cfHelp" \in DOMAIN target
    /\ stateClasses("cfHelp") = {"valid"}

----------------------------------------------------------------------------
(* The order of resolution and gating within one event.                    *)

\* C24: in the dispatch of an input event on a control of a registered
\* form, every resolution runs before every gating evaluation, and each
\* accepted submit control of the form ends disabled exactly when the form
\* as the event leaves it is not valid or holds a control marked
\* aria-invalid="true".
C24_ResolveBeforeGating ==
    [][(pc = "ready" /\ event'.type = "input" /\ el[event'.target].form \in forms)
       => LET f == el[event'.target].form
              after == [el |-> el', target |-> target', log |-> <<>>, run |-> <<>>]
          IN  /\ \A j \in 1..Len(run') : \A k \in 1..Len(run') :
                     (run'[j].fn = "validateInput" /\ run'[k].fn = "handleFormSubmitControl")
                     => j < k
              /\ \A s \in DOMAIN el :
                     (acceptedSubmit(s) /\ el[s].form = f)
                     => (el'[s].disabled
                           <=> ~(checkValidity(after, f) /\ ariaInvalidIn(after, f) = {}))]_vars

\* an input event on the origin inside the form that resolved the origin and
\* its dependent and then disabled the submit control for the dependent's
\* new mark
C24_Witness ==
    /\ pc = "ready"
    /\ event = [type |-> "input", target |-> "pw"]
    /\ el["pw"].form \in forms
    /\ Len(run) = 3
    /\ run[1] = [fn |-> "validateInput", arg |-> "pw", state |-> "Valid"]
    /\ run[2] = [fn |-> "validateInput", arg |-> "cf", state |-> "Invalid"]
    /\ run[3] = [fn |-> "handleFormSubmitControl", arg |-> "btn", state |-> "disabled"]
    /\ el["cf"].validity = {}

----------------------------------------------------------------------------
(* The decision and its message.                                           *)

\* control i carries a validation attribute, so that registration wires it
validated(i) ==
    DOMAIN el[i].attrs \cap
        {"accept", "min", "max", "step", "minlength", "maxlength", "pattern", "required"} # {}

\* C25: a resolution that marks a wired control Invalid writes an error
\* message that is not empty to the message element of the control.
C25_InvalidShowsMessage ==
    (/\ pc = "resolved"
     /\ validated("c")
     /\ resolvedAs("c", "Invalid")
     /\ describedBy("c") \in DOMAIN target)
    => target[describedBy("c")].text # ""

----------------------------------------------------------------------------
(* The mark of a control and the classes of its message element.           *)

\* C26: for a managed control whose message element exists and is its own,
\* aria-invalid is "true" exactly when the element has class invalid,
\* "false" exactly when it has class valid, and absent exactly when it has
\* neither class and no text.
C26_MarkMatchesClasses ==
    \A i \in DOMAIN el :
        (/\ eligible(i)
         /\ describedBy(i) \in DOMAIN target
         /\ \A j \in DOMAIN el : describedBy(j) = describedBy(i) => j = i)
        => LET m == target[describedBy(i)]
           IN  /\ ariaInvalid(i) = "true" <=> "invalid" \in m.classes
               /\ ariaInvalid(i) = "false" <=> "valid" \in m.classes
               /\ ariaInvalid(i) = "absent"
                    <=> (m.classes \cap {"valid", "invalid"} = {} /\ m.text = "")

\* a confirmation resolved Neutral next to its origin marked Invalid, each
\* with its own message element
C26_Witness ==
    /\ pc = "ready"
    /\ eligible("pw") /\ eligible("cf")
    /\ "cfHelp" \in DOMAIN target
    /\ resolvedAs("cf", "Neutral")
    /\ ariaInvalid("pw") = "true"
    /\ target["pwHelp"].text = "This field is required."

----------------------------------------------------------------------------
(* The frame of one input event.                                           *)

\* C27: an input event on control x changes aria-invalid and the message
\* element only of x and of the controls that name x as confirm-origin, and
\* the disabled property only of the accepted submit controls of x's form;
\* every other attribute, the value of every other control, the listeners
\* and the registration set stay as they are.
C27_InputFrame ==
    [][(pc = "ready" /\ event'.type = "input")
       => LET x == event'.target
              touched == {x} \cup {i \in DOMAIN el : confirms(i, x)}
          IN  /\ DOMAIN el' = DOMAIN el /\ DOMAIN target' = DOMAIN target
              /\ forms' = forms /\ listeners' = listeners
              /\ \A i \in DOMAIN el :
                     /\ i \notin touched => shownNext(i).mark = shownNow(i).mark
                     /\ i # x => /\ el'[i].value = el[i].value
                                 /\ el'[i].files = el[i].files
                                 /\ el'[i].validity = el[i].validity
                     /\ \A a \in (DOMAIN el[i].attrs \cup DOMAIN el'[i].attrs) \ {"aria-invalid"} :
                            /\ a \in DOMAIN el[i].attrs /\ a \in DOMAIN el'[i].attrs
                            /\ el'[i].attrs[a] = el[i].attrs[a]
                     /\ el'[i].disabled # el[i].disabled
                          => (acceptedSubmit(i) /\ el[i].form = el[x].form)
              /\ \A t \in DOMAIN target :
                     (\A i \in touched : describedBy(i) # t) => target'[t] = target[t]]_vars

\* an input event on the origin that changed the mark of its dependent and
\* enabled the submit control, the origin being shown Valid
C27_Witness ==
    /\ pc = "ready"
    /\ event = [type |-> "input", target |-> "pw"]
    /\ confirms("cf", "pw")
    /\ resolvedAs("cf", "Valid")
    /\ resolvedAs("pw", "Valid")
    /\ acceptedSubmit("btn") /\ ~el["btn"].disabled

----------------------------------------------------------------------------
(* Configuration warnings.                                                 *)

\* how often the line is in the log
logged(line) == Cardinality({k \in 1..Len(log) : log[k] = line})

\* C28: an input event logs a missing confirm-origin, and a missing message
\* element, once for each resolution of the control that names it, whatever
\* the value of the control.
C28_WarnedOnce ==
    (pc = "ready" /\ event.type = "input")
    => \A i \in DOMAIN el :
           /\ originMissing(i)
                => logged(originNotFound(i)) = ranTimes(run, "validateInput", i)
           /\ targetMissing(i)
                => logged("element not found for aria-describedby=" \o describedBy(i))
                     = ranTimes(run, "validateInput", i)

====
